---- MODULE Spec2Model ----
(***************************************************************************)
(* A model of pgs_gen.py: the PG-Schema parser, the count reader, the node *)
(* and relationship generators and the driver that wires them together.    *)
(*                                                                         *)
(* Text is modelled at the level the code reads it.  A schema line is the  *)
(* sequence of its tokens (the patterns allow any whitespace between       *)
(* tokens, so whitespace is not kept).  A cell of the count file is the    *)
(* sequence of its characters, so that strip() and int() are computed.     *)
(* Labels and identifiers are strings, and an identifier is built by       *)
(* concatenation exactly as the f-string builds it.                        *)
(***************************************************************************)
EXTENDS Integers, Sequences, FiniteSets, TLC

(* ----------------------------- bounds ---------------------------------- *)
MaxLines == 3
MaxRels == 2
MaxRows == 3
MaxNodes == 1
MaxEdges == 1

(* --------------------------- sequences --------------------------------- *)
Range(s) == {s[i] : i \in DOMAIN s}

RECURSIVE SeqsUpTo(_, _)
SeqsUpTo(S, n) ==
    IF n = 0 THEN {<<>>}
    ELSE LET shorter == SeqsUpTo(S, n - 1)
         IN  shorter \cup {Append(s, x) : s \in {t \in shorter : Len(t) = n - 1}, x \in S}

Max0(n) == IF n < 0 THEN 0 ELSE n

(* ----------------------- the schema's tokens --------------------------- *)
Punct == {"(", ")", ":", "{", "}", ",", "-[", "]->", "#"}

\* \w+ : a token that is a run of word characters
IsWord(t) == t \notin Punct

\* str.upper() on the type words the schemas below use
Upper(w) ==
    CASE w = "string" -> "STRING"
      [] w = "int"    -> "INT"
      [] OTHER        -> w

(* ----------------------------- parser ---------------------------------- *)
\* the position of the first "}" at or after position k (0 when there is none)
FirstClose(line, k) ==
    IF \E j \in k..Len(line) : line[j] = "}"
    THEN CHOOSE j \in k..Len(line) :
            /\ line[j] = "}"
            /\ \A m \in k..(j - 1) : line[m] # "}"
    ELSE 0

\* node_pattern matches with its "(" at position i
NodeMatchAt(line, i) ==
    /\ i + 6 <= Len(line)
    /\ line[i] = "("
    /\ IsWord(line[i + 1])
    /\ line[i + 2] = ":"
    /\ IsWord(line[i + 3])
    /\ line[i + 4] = "{"
    /\ LET j == FirstClose(line, i + 5)
       IN  /\ j # 0
           /\ j + 1 <= Len(line)
           /\ line[j + 1] = ")"

\* relationship_pattern matches with its "(" at position i
RelMatchAt(line, i) ==
    /\ i + 12 <= Len(line)
    /\ line[i] = "("
    /\ line[i + 1] = ":"
    /\ IsWord(line[i + 2])
    /\ line[i + 3] = ")"
    /\ line[i + 4] = "-["
    /\ IsWord(line[i + 5])
    /\ line[i + 6] = ":"
    /\ IsWord(line[i + 7])
    /\ line[i + 8] = "]->"
    /\ line[i + 9] = "("
    /\ line[i + 10] = ":"
    /\ IsWord(line[i + 11])
    /\ line[i + 12] = ")"

\* node_pattern.search: the leftmost position where the pattern matches
\* (0: no match)
node_pattern_search(line) ==
    IF \E i \in 1..Len(line) : NodeMatchAt(line, i)
    THEN CHOOSE i \in 1..Len(line) :
            /\ NodeMatchAt(line, i)
            /\ \A m \in 1..(i - 1) : ~NodeMatchAt(line, m)
    ELSE 0

\* relationship_pattern.search: the leftmost position where the pattern
\* matches (0: no match)
relationship_pattern_search(line) ==
    IF \E i \in 1..Len(line) : RelMatchAt(line, i)
    THEN CHOOSE i \in 1..Len(line) :
            /\ RelMatchAt(line, i)
            /\ \A m \in 1..(i - 1) : ~RelMatchAt(line, m)
    ELSE 0

\* properties_str.split(','): the token runs between commas
RECURSIVE SplitComma(_)
SplitComma(toks) ==
    IF \A k \in 1..Len(toks) : toks[k] # ","
    THEN <<toks>>
    ELSE LET c == CHOOSE k \in 1..Len(toks) :
                      /\ toks[k] = ","
                      /\ \A m \in 1..(k - 1) : toks[m] # ","
         IN  <<SubSeq(toks, 1, c - 1)>> \o SplitComma(SubSeq(toks, c + 1, Len(toks)))

\* the loop over prop_pairs: the pairs with at least two parts, in order
RECURSIVE PropertiesOf(_)
PropertiesOf(pairs) ==
    IF pairs = <<>> THEN <<>>
    ELSE LET parts == Head(pairs)
         IN  (IF Len(parts) >= 2 THEN << <<parts[1], parts[2]>> >> ELSE <<>>)
             \o PropertiesOf(Tail(pairs))

\* the groups of a node match at position i, as the entry stored for it
NodeEntry(line, i) ==
    LET j == FirstClose(line, i + 5)
        properties_str == SubSeq(line, i + 5, j - 1)
    IN  [label          |-> line[i + 1],
         external_label |-> line[i + 3],
         properties     |-> IF properties_str # <<>>
                            THEN PropertiesOf(SplitComma(properties_str))
                            ELSE <<>>]

\* the groups of a relationship match at position i, as the tuple appended
RelEntry(line, i) ==
    [internal |-> line[i + 5],
     start    |-> line[i + 2],
     end      |-> line[i + 11],
     external |-> line[i + 7]]

\* nodes_dict[key] = value on an insertion-ordered dict kept as a sequence of
\* entries: an existing key keeps its place and takes the new value
DictSet(d, entry) ==
    IF \E k \in 1..Len(d) : d[k].label = entry.label
    THEN [k \in 1..Len(d) |-> IF d[k].label = entry.label THEN entry ELSE d[k]]
    ELSE Append(d, entry)

Keys(d) == {d[k].label : k \in 1..Len(d)}

\* one iteration of the loop over the lines: the node test
NodeStep(d, line) ==
    LET i == node_pattern_search(line)
    IN  IF i # 0 THEN DictSet(d, NodeEntry(line, i)) ELSE d

\* one iteration of the loop over the lines: the relationship test
RelStep(rl, line) ==
    LET i == relationship_pattern_search(line)
    IN  IF i # 0 THEN Append(rl, RelEntry(line, i)) ELSE rl

(* --------------------------- count file -------------------------------- *)
DigitChars == {"0", "1", "2", "3", "4", "5", "6", "7", "8", "9"}

DigitVal(c) ==
    CASE c = "0" -> 0 [] c = "1" -> 1 [] c = "2" -> 2 [] c = "3" -> 3
      [] c = "4" -> 4 [] c = "5" -> 5 [] c = "6" -> 6 [] c = "7" -> 7
      [] c = "8" -> 8 [] c = "9" -> 9

\* str.strip() on a sequence of characters
RECURSIVE LStrip(_)
LStrip(cs) == IF cs # <<>> /\ Head(cs) = " " THEN LStrip(Tail(cs)) ELSE cs

RECURSIVE RStrip(_)
RStrip(cs) ==
    IF cs # <<>> /\ cs[Len(cs)] = " " THEN RStrip(SubSeq(cs, 1, Len(cs) - 1)) ELSE cs

Strip(cs) == RStrip(LStrip(cs))

\* the string a sequence of characters spells
RECURSIVE Join(_)
Join(cs) == IF cs = <<>> THEN "" ELSE Head(cs) \o Join(Tail(cs))

\* the digits int() accepts after the sign: digits, single underscores between
IntBody(b) ==
    /\ b # <<>>
    /\ \A k \in 1..Len(b) : b[k] \in DigitChars \cup {"_"}
    /\ b[1] # "_"
    /\ b[Len(b)] # "_"
    /\ \A k \in 1..(Len(b) - 1) : ~(b[k] = "_" /\ b[k + 1] = "_")

RECURSIVE BodyValue(_, _)
BodyValue(b, acc) ==
    IF b = <<>> THEN acc
    ELSE IF Head(b) = "_" THEN BodyValue(Tail(b), acc)
    ELSE BodyValue(Tail(b), 10 * acc + DigitVal(Head(b)))

\* int(text): ok is FALSE where int() raises ValueError
ParseInt(cs) ==
    LET t    == Strip(cs)
        neg  == t # <<>> /\ Head(t) = "-"
        sgn  == t # <<>> /\ Head(t) \in {"-", "+"}
        body == IF sgn THEN Tail(t) ELSE t
    IN  IF IntBody(body)
        THEN [ok |-> TRUE, value |-> IF neg THEN 0 - BodyValue(body, 0) ELSE BodyValue(body, 0)]
        ELSE [ok |-> FALSE, value |-> 0]

\* dict.get(key, default) on a mapping kept as a function
Get(m, key, default) == IF key \in DOMAIN m THEN m[key] ELSE default

\* counts_map[key] = value
MapSet(m, key, value) == [k \in DOMAIN m \cup {key} |-> IF k = key THEN value ELSE m[k]]

\* RowStep with a first-row-wins mapping: a label already present is kept
RowStep_keepFirst(m, row) ==
    IF Len(row) < 2 THEN m
    ELSE LET label_name == Join(Strip(row[1]))
             parsed     == ParseInt(Strip(row[2]))
         IN  IF parsed.ok /\ label_name \notin DOMAIN m
             THEN MapSet(m, label_name, parsed.value)
             ELSE m

\* one iteration of the loop over the rows of the reader
RowStep(m, row) ==
    IF Len(row) < 2 THEN m
    ELSE LET label_name == Join(Strip(row[1]))
             parsed     == ParseInt(Strip(row[2]))
         IN  IF parsed.ok THEN MapSet(m, label_name, parsed.value) ELSE m

\* the loop over the rows, from the empty mapping
RECURSIVE RowsFold(_, _)
RowsFold(m, rows) ==
    IF rows = <<>> THEN m ELSE RowsFold(RowStep(m, Head(rows)), Tail(rows))

EmptyMap == [k \in {} |-> 0]

(* ---------------------------- generators ------------------------------- *)
\* NodeId without the label: the index alone names the node
NodeId_noLabel(node_label, i) == "n_" \o ToString(i)

\* f"{node_label}_{i}"
NodeId(node_label, i) == node_label \o "_" \o ToString(i)

\* the value generated for a property of the given type, kept as its kind
\* (a random upper-case string, printed quoted, or a random integer)
ValueKind(prop_type) == IF Upper(prop_type) = "INT" THEN "int" ELSE "str"

\* prop_assignments: a dict, so a repeated name keeps its first place and
\* takes the last kind
RECURSIVE Assignments(_, _)
Assignments(properties, acc) ==
    IF properties = <<>> THEN acc
    ELSE LET p == Head(properties)
             e == [label |-> p[1], kind |-> ValueKind(p[2])]
         IN  Assignments(Tail(properties), DictSet(acc, e))

\* the statement built for one node instance
NodeStatement(node_id, info) ==
    [id    |-> node_id,
     label |-> info.external_label,
     props |-> Assignments(info.properties, <<>>)]

\* range(n) as the sequence 0, 1, ..., n - 1 (empty for n <= 0)
RangeSeq(n) == [k \in 1..Max0(n) |-> k - 1]

\* the identifiers appended to node_ids[label] by the inner loop
IdsFor(node_label, node_count) ==
    [k \in 1..Max0(node_count) |-> NodeId(node_label, RangeSeq(node_count)[k])]

\* the statements appended by the inner loop
StatementsFor(info, node_count) ==
    [k \in 1..Max0(node_count) |->
        NodeStatement(NodeId(info.label, RangeSeq(node_count)[k]), info)]

\* RelStatement with the two ends exchanged
RelStatement_swapped(s_node, e_node, external_rel_label) ==
    [s |-> e_node, e |-> s_node, label |-> external_rel_label]

\* the statement built for one relationship
RelStatement(s_node, e_node, external_rel_label) ==
    [s |-> s_node, e |-> e_node, label |-> external_rel_label]

(* ------------------------------ inputs --------------------------------- *)
\* (P: Person {name STRING, age int, bad})
LineNodeP ==
    <<"(", "P", ":", "Person", "{", "name", "STRING", ",", "age", "int", ",", "bad", "}", ")">>

\* (P_0: Post {})
LineNodeQ == <<"(", "P_0", ":", "Post", "{", "}", ")">>

\* (:P)-[R: wrote]->(:P_0)
LineRelPQ == <<"(", ":", "P", ")", "-[", "R", ":", "wrote", "]->", "(", ":", "P_0", ")">>

\* (:P)-[K: knows]->(:P)
LineRelPP == <<"(", ":", "P", ")", "-[", "K", ":", "knows", "]->", "(", ":", "P", ")">>

\* (:C)-[R: likes]->(:P)   its start label is declared by no line
LineRelCP == <<"(", ":", "C", ")", "-[", "R", ":", "likes", "]->", "(", ":", "P", ")">>

\* (P: Human {}) (:P)-[K: knows]->(:P)   a node and a relationship on one line
LineBoth == <<"(", "P", ":", "Human", "{", "}", ")">> \o LineRelPP

\* # comment
LineJunk == <<"#", "comment">>

LineBlank == <<>>

Lines ==
    {LineNodeP, LineNodeQ, LineRelPQ, LineRelPP, LineRelCP, LineBoth, LineJunk, LineBlank}

\* P,2
RowP2 == << <<"P">>, <<"2">> >>

\* P,-1
RowPneg == << <<"P">>, <<"-", "1">> >>

\* P,x
RowPbad == << <<"P">>, <<"x">> >>

\* P
RowShort == << <<"P">> >>

\* " K , 02 ,extra"
RowK == << <<" ", "K", " ">>, <<" ", "0", "2", " ">>, <<"e", "x", "t", "r", "a">> >>

\* P_0,0
RowQ0 == << <<"P", "_", "0">>, <<"0">> >>

Rows == {RowP2, RowPneg, RowPbad, RowShort, RowK, RowQ0}

\* the count files the full runs are given
CsvFiles == {<<RowPneg>>, <<RowP2, RowK>>}

CsvArgs == {"none", "missing", "unreadable", "file"}

(* ------------------------------ state ---------------------------------- *)
VARIABLES
    pc,                      \* where main is
    error,                   \* the exception that ended the run, or "none"
    default_nodes_count,     \* main: line 197
    default_edges_count,     \* main: line 198
    csv_arg,                 \* args.csv and what the path names
    csv_rows,                \* the rows of the count file
    n_lines,                 \* lines of the schema consumed so far
    declared,                \* node labels in the order they were first declared
    nodes_dict,
    relationships_list,
    counts_map,
    node_i,                  \* position of the loop over nodes_dict
    node_statements,
    node_ids,
    rel_i,                   \* position of the loop over relationships_list
    attempt,                 \* iterations done of the loop over range(rel_count)
    relationship_statements,
    rel_of,                  \* for each relationship statement: <<rel_i, attempt>>
    tries,                   \* per relationship: sampling attempts made
    loops,                   \* per relationship: attempts with s_node = e_node
    stdout

vars ==
    <<pc, error, default_nodes_count, default_edges_count, csv_arg, csv_rows,
      n_lines, declared, nodes_dict, relationships_list, counts_map, node_i,
      node_statements, node_ids, rel_i, attempt, relationship_statements,
      rel_of, tries, loops, stdout>>

argVars == <<default_nodes_count, default_edges_count, csv_arg, csv_rows>>

parseVars == <<n_lines, declared, nodes_dict, relationships_list>>

nodeVars == <<node_i, node_statements, node_ids>>

relVars == <<rel_i, attempt, relationship_statements, rel_of, tries, loops>>

\* counts_map.get(node_label, default_count) in generate_cypher_for_nodes
node_count(node_label) == Get(counts_map, node_label, default_nodes_count)

\* counts_map.get(internal_rel_label, default_count) in
\* generate_cypher_for_relationships
rel_count(r) == Get(counts_map, relationships_list[r].internal, default_edges_count)

InitCommon ==
    /\ error = "none"
    /\ default_nodes_count \in -1..MaxNodes
    /\ default_edges_count \in -1..MaxEdges
    /\ csv_arg \in CsvArgs
    /\ n_lines = 0
    /\ counts_map = EmptyMap
    /\ node_i = 1
    /\ node_statements = <<>>
    /\ node_ids = EmptyMap
    /\ rel_i = 1
    /\ attempt = 0
    /\ relationship_statements = <<>>
    /\ rel_of = <<>>
    /\ tries = <<>>
    /\ loops = <<>>
    /\ stdout = <<>>

Init ==
    /\ InitCommon
    /\ pc = "open"
    /\ csv_rows \in (IF csv_arg = "file" THEN CsvFiles ELSE {<<>>})
    /\ declared = <<>>
    /\ nodes_dict = <<>>
    /\ relationships_list = <<>>

(* ------------------------------- main ---------------------------------- *)
\* open(args.filename) succeeds
OpenSchema ==
    /\ pc = "open"
    /\ pc' = "parse"
    /\ UNCHANGED <<error, argVars, parseVars, counts_map, nodeVars, relVars, stdout>>

\* open(args.filename) raises: the exception leaves main
OpenSchemaFails ==
    /\ pc = "open"
    /\ pc' = "crashed"
    /\ error' = "schema"
    /\ UNCHANGED <<argVars, parseVars, counts_map, nodeVars, relVars, stdout>>

\* parse_pg_schema: one iteration of the loop over the lines (of a schema of
\* at most MaxLines lines that declare at most MaxRels relationships)
ParseLine ==
    /\ pc = "parse"
    /\ n_lines < MaxLines
    /\ \E line \in Lines :
         /\ n_lines' = n_lines + 1
         /\ IF line = <<>>
            THEN UNCHANGED <<declared, nodes_dict, relationships_list>>
            ELSE /\ nodes_dict' = NodeStep(nodes_dict, line)
                 /\ relationships_list' = RelStep(relationships_list, line)
                 /\ Len(relationships_list') <= MaxRels
                 /\ declared' =
                      LET i == node_pattern_search(line)
                      IN  IF i # 0 /\ line[i + 1] \notin Range(declared)
                          THEN Append(declared, line[i + 1])
                          ELSE declared
    /\ UNCHANGED <<pc, error, argVars, counts_map, nodeVars, relVars, stdout>>

\* parse_pg_schema returns: its loop over the lines is gone, its two results stay
ParseDone ==
    /\ pc = "parse"
    /\ pc' = "csv"
    /\ n_lines' = 0
    /\ UNCHANGED <<error, argVars, declared, nodes_dict, relationships_list,
                   counts_map, nodeVars, relVars, stdout>>

\* the first lines of generate_cypher_for_nodes
EnterNodes ==
    /\ pc' = "nodes"
    /\ node_i' = 1
    /\ node_statements' = <<>>
    /\ node_ids' = [label \in Keys(nodes_dict) |-> <<>>]

\* args.csv is not given
NoCsv ==
    /\ pc = "csv"
    /\ csv_arg = "none"
    /\ counts_map' = EmptyMap
    /\ EnterNodes
    /\ UNCHANGED <<error, argVars, parseVars, relVars, stdout>>

\* read_csv_counts: the path names no file
CsvMissing ==
    /\ pc = "csv"
    /\ csv_arg = "missing"
    /\ stdout' = Append(stdout, [kind |-> "warning"])
    /\ counts_map' = EmptyMap
    /\ EnterNodes
    /\ UNCHANGED <<error, argVars, parseVars, relVars>>

\* read_csv_counts: the path names a file that cannot be opened or decoded;
\* the exception of open() or of the reader is caught nowhere
CsvUnreadable ==
    /\ pc = "csv"
    /\ csv_arg = "unreadable"
    /\ pc' = "crashed"
    /\ error' = "csv"
    /\ UNCHANGED <<argVars, parseVars, counts_map, nodeVars, relVars, stdout>>

\* read_csv_counts: the file is read
CsvRead ==
    /\ pc = "csv"
    /\ csv_arg = "file"
    /\ counts_map' = RowsFold(EmptyMap, csv_rows)
    /\ EnterNodes
    /\ UNCHANGED <<error, argVars, parseVars, relVars, stdout>>

\* generate_cypher_for_nodes: one iteration of the loop over nodes_dict
GenerateNodes ==
    /\ pc = "nodes"
    /\ node_i <= Len(nodes_dict)
    /\ LET info == nodes_dict[node_i]
           n    == node_count(info.label)
       IN  /\ node_ids' = [node_ids EXCEPT ![info.label] = @ \o IdsFor(info.label, n)]
           /\ node_statements' = node_statements \o StatementsFor(info, n)
    /\ node_i' = node_i + 1
    /\ UNCHANGED <<pc, error, argVars, parseVars, counts_map, relVars, stdout>>

\* generate_cypher_for_nodes returns; generate_cypher_for_relationships starts
NodesDone ==
    /\ pc = "nodes"
    /\ node_i > Len(nodes_dict)
    /\ pc' = "rels"
    /\ rel_i' = 1
    /\ attempt' = 0
    /\ relationship_statements' = <<>>
    /\ rel_of' = <<>>
    /\ tries' = [r \in 1..Len(relationships_list) |-> 0]
    /\ loops' = [r \in 1..Len(relationships_list) |-> 0]
    /\ UNCHANGED <<error, argVars, parseVars, counts_map, nodeVars, stdout>>

\* the relationship of the current iteration names a label not in node_ids
LabelsMissing(r) ==
    \/ relationships_list[r].start \notin DOMAIN node_ids
    \/ relationships_list[r].end \notin DOMAIN node_ids

\* RelSkipType leaving the loop (break) where the code continues
RelSkipType_break ==
    /\ pc = "rels"
    /\ rel_i <= Len(relationships_list)
    /\ LabelsMissing(rel_i)
    /\ rel_i' = Len(relationships_list) + 1
    /\ UNCHANGED <<pc, error, argVars, parseVars, counts_map, nodeVars, attempt,
                   relationship_statements, rel_of, tries, loops, stdout>>

\* line 141: continue
RelSkipType ==
    /\ pc = "rels"
    /\ rel_i <= Len(relationships_list)
    /\ LabelsMissing(rel_i)
    /\ rel_i' = rel_i + 1
    /\ UNCHANGED <<pc, error, argVars, parseVars, counts_map, nodeVars, attempt,
                   relationship_statements, rel_of, tries, loops, stdout>>

\* lines 150-155: one sampling attempt
RelAttempt ==
    /\ pc = "rels"
    /\ rel_i <= Len(relationships_list)
    /\ ~LabelsMissing(rel_i)
    /\ attempt < rel_count(rel_i)
    /\ LET r               == relationships_list[rel_i]
           possible_starts == node_ids[r.start]
           possible_ends   == node_ids[r.end]
       IN  /\ possible_starts # <<>>
           /\ possible_ends # <<>>
           /\ \E s_node \in Range(possible_starts), e_node \in Range(possible_ends) :
                /\ tries' = [tries EXCEPT ![rel_i] = @ + 1]
                /\ IF s_node # e_node
                   THEN /\ relationship_statements' =
                             Append(relationship_statements,
                                    RelStatement(s_node, e_node, r.external))
                        /\ rel_of' = Append(rel_of, <<rel_i, attempt>>)
                        /\ loops' = loops
                   ELSE /\ loops' = [loops EXCEPT ![rel_i] = @ + 1]
                        /\ UNCHANGED <<relationship_statements, rel_of>>
    /\ attempt' = attempt + 1
    /\ UNCHANGED <<pc, error, argVars, parseVars, counts_map, nodeVars, rel_i, stdout>>

\* lines 148-149: an iteration with an empty list of starts or ends
RelAttemptEmpty ==
    /\ pc = "rels"
    /\ rel_i <= Len(relationships_list)
    /\ ~LabelsMissing(rel_i)
    /\ attempt < rel_count(rel_i)
    /\ \/ node_ids[relationships_list[rel_i].start] = <<>>
       \/ node_ids[relationships_list[rel_i].end] = <<>>
    /\ attempt' = attempt + 1
    /\ UNCHANGED <<pc, error, argVars, parseVars, counts_map, nodeVars, rel_i,
                   relationship_statements, rel_of, tries, loops, stdout>>

\* range(rel_count) is exhausted: the next relationship
RelTypeDone ==
    /\ pc = "rels"
    /\ rel_i <= Len(relationships_list)
    /\ ~LabelsMissing(rel_i)
    /\ attempt >= rel_count(rel_i)
    /\ rel_i' = rel_i + 1
    /\ attempt' = 0
    /\ UNCHANGED <<pc, error, argVars, parseVars, counts_map, nodeVars,
                   relationship_statements, rel_of, tries, loops, stdout>>

\* generate_cypher_for_relationships returns
RelsDone ==
    /\ pc = "rels"
    /\ rel_i > Len(relationships_list)
    /\ pc' = "print"
    /\ UNCHANGED <<error, argVars, parseVars, counts_map, nodeVars, relVars, stdout>>

\* OutputOf with the two sections exchanged
OutputOf_relsFirst(ns, rs) ==
    <<[kind |-> "header", section |-> "relationships"]>>
    \o [k \in 1..Len(rs) |-> [kind |-> "rel", stmt |-> rs[k]]]
    \o <<[kind |-> "header", section |-> "nodes"]>>
    \o [k \in 1..Len(ns) |-> [kind |-> "node", stmt |-> ns[k]]]

\* what main prints, in order
OutputOf(ns, rs) ==
    <<[kind |-> "header", section |-> "nodes"]>>
    \o [k \in 1..Len(ns) |-> [kind |-> "node", stmt |-> ns[k]]]
    \o <<[kind |-> "header", section |-> "relationships"]>>
    \o [k \in 1..Len(rs) |-> [kind |-> "rel", stmt |-> rs[k]]]

\* main: lines 228-234
PrintResults ==
    /\ pc = "print"
    /\ stdout' = stdout \o OutputOf(node_statements, relationship_statements)
    /\ pc' = "done"
    /\ UNCHANGED <<error, argVars, parseVars, counts_map, nodeVars, relVars>>

Next ==
    \/ OpenSchema
    \/ OpenSchemaFails
    \/ ParseLine
    \/ ParseDone
    \/ NoCsv
    \/ CsvMissing
    \/ CsvUnreadable
    \/ CsvRead
    \/ GenerateNodes
    \/ NodesDone
    \/ RelSkipType
    \/ RelAttempt
    \/ RelAttemptEmpty
    \/ RelTypeDone
    \/ RelsDone
    \/ PrintResults

Spec == Init /\ [][Next]_vars

(* ------------------- read_csv_counts on its own ------------------------ *)
\* main after parse_pg_schema has read the two node declarations, given any
\* count file of at most MaxRows rows
InitCsv ==
    /\ InitCommon
    /\ pc = "csv"
    /\ csv_arg = "file"
    /\ csv_rows \in SeqsUpTo(Rows, MaxRows)
    /\ nodes_dict = NodeStep(NodeStep(<<>>, LineNodeP), LineNodeQ)
    /\ declared = <<"P", "P_0">>
    /\ relationships_list = <<>>

NextCsv ==
    \/ CsvRead
    \/ GenerateNodes
    \/ NodesDone

SpecCsv == InitCsv /\ [][NextCsv]_vars

(* --------------------- vocabulary of the claims ------------------------ *)
AfterCsv == pc \in {"nodes", "rels", "print", "done"}

AfterNodes == pc \in {"rels", "print", "done"}

AfterRels == pc \in {"print", "done"}

\* the label has at least one generated identifier
HasIds(label) == label \in DOMAIN node_ids /\ node_ids[label] # <<>>

\* positions of the node statements built for a label
NodeStatementsOf(label) ==
    {k \in 1..Len(node_statements) : node_statements[k].id \in Range(node_ids[label])}

\* positions of the relationship statements built for the r-th relationship
RelStatementsOf(r) == {k \in 1..Len(rel_of) : rel_of[k][1] = r}

\* a row the reader takes a count from
ValidRow(row) == Len(row) >= 2 /\ ParseInt(row[2]).ok

\* the last valid row for a label (0: none)
LastValid(rows, label) ==
    LET hits == {i \in 1..Len(rows) : ValidRow(rows[i]) /\ Join(Strip(rows[i][1])) = label}
    IN  IF hits = {} THEN 0 ELSE CHOOSE i \in hits : \A j \in hits : j <= i

CountLabels == {"P", "P_0", "K", "R"}

\* lexicographic order on <<rel_i, attempt>>
Before(a, b) == a[1] < b[1] \/ (a[1] = b[1] /\ a[2] < b[2])

\* the identifiers of the node statements, as the claims expect them: the
\* labels in declaration order, the index rising within a label
RECURSIVE ExpectedNodeIds(_)
ExpectedNodeIds(labels) ==
    IF labels = <<>> THEN <<>>
    ELSE LET l == Head(labels)
         IN  [k \in 1..Max0(node_count(l)) |-> l \o "_" \o ToString(k - 1)]
             \o ExpectedNodeIds(Tail(labels))

\* stdout without the warning of read_csv_counts
Body == IF stdout # <<>> /\ stdout[1].kind = "warning" THEN Tail(stdout) ELSE stdout

Positions(kind) == {k \in 1..Len(Body) : Body[k].kind = kind}

(* ------------------------------- C1 ------------------------------------ *)
\* C1: every declared NodeType with N requested instances (the override of its
\* label, else the default) gets exactly N statements and an identifier list
\* of length exactly N with pairwise distinct identifiers; for N = 0 the list
\* is empty and no statement is emitted.
C1_ExactlyN ==
    AfterNodes =>
        \A k \in 1..Len(nodes_dict) :
            LET label == nodes_dict[k].label
                N     == node_count(label)
                ids   == node_ids[label]
            IN  /\ Cardinality(NodeStatementsOf(label)) = N
                /\ Len(ids) = N
                /\ \A i, j \in 1..Len(ids) : i # j => ids[i] # ids[j]
                /\ (N = 0 => ids = <<>>)

(* ------------------------------- C2 ------------------------------------ *)
\* C2: for a RelationshipType whose start and end labels both have generated
\* identifiers and whose requested count is M, at most M statements are
\* emitted, the deficit is exactly the number of attempts that sampled the same
\* identifier twice, and exactly M sampling attempts are made.
C2_DeficitIsSelfLoops ==
    AfterRels =>
        \A r \in 1..Len(relationships_list) :
            (HasIds(relationships_list[r].start) /\ HasIds(relationships_list[r].end)) =>
                LET M       == rel_count(r)
                    emitted == Cardinality(RelStatementsOf(r))
                IN  /\ emitted <= M
                    /\ M - emitted = loops[r]
                    /\ tries[r] = M

(* ------------------------------- C3 ------------------------------------ *)
\* C3: a RelationshipType whose start or end label has no generated identifier
\* (never declared, or generated with no instance) gets no statement, no error
\* is raised, and every other RelationshipType of the list is still processed:
\* each one with identifiers at both ends makes all its sampling attempts.
C3_EmptyEndsSkipped ==
    AfterRels =>
        /\ error = "none"
        /\ \A r \in 1..Len(relationships_list) :
              IF HasIds(relationships_list[r].start) /\ HasIds(relationships_list[r].end)
              THEN tries[r] = Max0(rel_count(r))
              ELSE RelStatementsOf(r) = {} /\ tries[r] = 0

\* a run that skipped the first relationship (undeclared start label) and
\* emitted a statement for a later one
C3_Witness ==
    /\ pc = "done"
    /\ Len(relationships_list) >= 2
    /\ relationships_list[1].start \notin DOMAIN node_ids
    /\ RelStatementsOf(1) = {}
    /\ RelStatementsOf(2) # {}

(* ------------------------------- C4 ------------------------------------ *)
\* C4: after reading any rows, a label maps to the value of the last row for
\* it that has two columns and an integer second column; short rows and rows
\* with a non-integer count change nothing and raise no error; a label with no
\* valid row uses the caller's default, and the node generator emits that many
\* statements (none for a count below one).
C4_LastValidRowWins ==
    /\ error = "none"
    /\ AfterCsv =>
          \A label \in CountLabels :
              LET i == LastValid(csv_rows, label)
              IN  /\ (label \in DOMAIN counts_map) <=> (i # 0)
                  /\ i # 0 => counts_map[label] = ParseInt(csv_rows[i][2]).value
                  /\ i = 0 => node_count(label) = default_nodes_count
    /\ AfterNodes =>
          \A k \in 1..Len(nodes_dict) :
              LET label == nodes_dict[k].label
                  i     == LastValid(csv_rows, label)
                  n     == IF i # 0 THEN ParseInt(csv_rows[i][2]).value
                           ELSE default_nodes_count
              IN  Cardinality(NodeStatementsOf(label)) = Max0(n)

\* an earlier valid row for P is overwritten by a later one, a row with a
\* non-integer count after them changes nothing, and two statements come out
\* where the default asks for fewer
C4_Witness ==
    /\ pc = "rels"
    /\ csv_rows = <<RowPneg, RowP2, RowPbad>>
    /\ default_nodes_count = 1
    /\ Len(node_statements) = 3
    /\ Len(node_ids["P"]) = 2

(* ------------------------------- C5 ------------------------------------ *)
\* C5: every value stored in the mapping returned by read_csv_counts is >= 0.
C5_NonNegative ==
    AfterCsv => \A label \in DOMAIN counts_map : counts_map[label] >= 0

(* ------------------------------- C6 ------------------------------------ *)
\* C6: processing one schema line never both adds (or overwrites) a NodeType
\* and appends a RelationshipType.
C6_AtMostOneConstruct ==
    [][pc = "parse" =>
          ~(nodes_dict' # nodes_dict /\ relationships_list' # relationships_list)]_vars

(* ------------------------------- C7 ------------------------------------ *)
\* C7: only an unreadable or missing schema file stops the run, and then
\* nothing is output; a missing count file is not fatal: the mapping is empty,
\* a warning is printed and generation uses the defaults for every label.
C7_OnlySchemaFatal ==
    /\ pc = "crashed" => (error = "schema" /\ stdout = <<>>)
    /\ (csv_arg = "missing" /\ AfterCsv) =>
          /\ counts_map = EmptyMap
          /\ stdout # <<>> /\ stdout[1].kind = "warning"
    /\ (csv_arg = "missing" /\ pc = "done") =>
          /\ \A k \in 1..Len(nodes_dict) :
                Len(node_ids[nodes_dict[k].label]) = Max0(default_nodes_count)
          /\ \A r \in 1..Len(relationships_list) :
                (HasIds(relationships_list[r].start) /\ HasIds(relationships_list[r].end))
                    => tries[r] = Max0(default_edges_count)

(* ------------------------------- C8 ------------------------------------ *)
\* C8: in the output every node statement precedes every relationship
\* statement; the node statements come grouped by NodeType in declaration
\* order (the order in which the labels were first declared), the index rising
\* within a type; the relationship statements come grouped by RelationshipType
\* in the order of the schema, one group per entry of the list even where the
\* internal label repeats, and in attempt order within a group.
C8_OutputOrder ==
    pc = "done" =>
        LET nodePos == Positions("node")
            relPos  == Positions("rel")
            nodeSeq == [k \in 1..Cardinality(nodePos) |-> Body[k + 1].stmt.id]
            relSeq  == [k \in 1..Cardinality(relPos) |->
                           Body[k + Cardinality(nodePos) + 2].stmt]
        IN  /\ \A a \in nodePos, b \in relPos : a < b
            /\ nodePos = 2..(Cardinality(nodePos) + 1)
            /\ relPos = (Cardinality(nodePos) + 3)..Len(Body)
            /\ nodeSeq = ExpectedNodeIds(declared)
            /\ relSeq = relationship_statements
            /\ Len(rel_of) = Len(relSeq)
            /\ \A a, b \in 1..Len(rel_of) : a < b => Before(rel_of[a], rel_of[b])
            /\ \A a \in 1..Len(rel_of) :
                  LET r == relationships_list[rel_of[a][1]]
                  IN  /\ relSeq[a].label = r.external
                      /\ relSeq[a].s \in Range(node_ids[r.start])
                      /\ relSeq[a].e \in Range(node_ids[r.end])

\* a finished run with two node types of the schema's order, a redeclared
\* label, and statements of two relationship entries with the same internal
\* label
C8_Witness ==
    /\ pc = "done"
    /\ declared = <<"P_0", "P">>
    /\ Len(node_ids["P"]) = 2
    /\ Len(relationships_list) = 2
    /\ relationships_list[1].internal = relationships_list[2].internal
    /\ RelStatementsOf(1) # {}
    /\ RelStatementsOf(2) # {}

(* ------------------------------- C9 ------------------------------------ *)
\* C9: every relationship statement of a type with start label S and end
\* label E names a start identifier generated for S and an end identifier
\* generated for E, the two differ, and in the output each of them is
\* introduced by a node statement that comes before the relationship statement.
C9_ReferentialIntegrity ==
    /\ AfterNodes =>
          \A k \in 1..Len(relationship_statements) :
              LET r    == relationships_list[rel_of[k][1]]
                  stmt == relationship_statements[k]
              IN  /\ stmt.s \in Range(node_ids[r.start])
                  /\ stmt.e \in Range(node_ids[r.end])
                  /\ stmt.s # stmt.e
    /\ pc = "done" =>
          \A b \in Positions("rel") :
              /\ \E a \in Positions("node") : a < b /\ Body[a].stmt.id = Body[b].stmt.s
              /\ \E a \in Positions("node") : a < b /\ Body[a].stmt.id = Body[b].stmt.e

\* a finished run that printed a statement from P to P_0
C9_Witness ==
    /\ pc = "done"
    /\ {"P", "P_0"} \subseteq DOMAIN node_ids
    /\ \E b \in Positions("rel") :
          /\ Body[b].stmt.s \in Range(node_ids["P"])
          /\ Body[b].stmt.e \in Range(node_ids["P_0"])

(* ------------------------------- C10 ----------------------------------- *)
\* C10: identifiers generated for two different node labels never coincide,
\* so a RelationshipType whose start label differs from its end label, both
\* with identifiers, and whose count M is >= 0 drops no attempt and emits
\* exactly M statements.
C10_NoCrossLabelCollision ==
    /\ \A l1, l2 \in DOMAIN node_ids :
          l1 # l2 => Range(node_ids[l1]) \cap Range(node_ids[l2]) = {}
    /\ AfterRels =>
          \A r \in 1..Len(relationships_list) :
              LET t == relationships_list[r]
              IN  (t.start # t.end /\ HasIds(t.start) /\ HasIds(t.end) /\ rel_count(r) >= 0)
                      => /\ loops[r] = 0
                         /\ Cardinality(RelStatementsOf(r)) = rel_count(r)

\* the relationship from P to P_0 made its attempt with two identifiers of P
\* and one of P_0 to sample from
C10_Witness ==
    /\ pc = "done"
    /\ Len(relationships_list) = 1
    /\ relationships_list[1].start = "P"
    /\ relationships_list[1].end = "P_0"
    /\ {"P", "P_0"} \subseteq DOMAIN node_ids
    /\ Len(node_ids["P"]) = 2
    /\ Len(node_ids["P_0"]) = 1
    /\ rel_count(1) = 1
    /\ Cardinality(RelStatementsOf(1)) = 1

====
